---- MODULE Spec2Model ----
(***************************************************************************)
(* Model of the K-DIN monthly report dashboard (src/app.py): one Streamlit *)
(* script that is re-run from top to bottom on every widget interaction.   *)
(* State is the widget/session state, the st.cache_data store of           *)
(* fetch_data, the clock, and what the last script run put on the page.    *)
(***************************************************************************)
EXTENDS Integers, Sequences, FiniteSets, TLC

\* ------------------------------------------------------------------ bounds
MaxCalls == 3
MaxTime == 300
MaxDeselect == 2
TimeStep == 150
MaxTopN == 5

\* ------------------------------------------------------- program constants
TTL == 300
SliderMin == 5
SliderStep == 5
SliderDefault == 25

\* ----------------------------------------------------------- option values
None == [some |-> FALSE, val |-> {}]
Some(v) == [some |-> TRUE, val |-> v]

TypeOptions == {"All", "PaAN", "PaAN_other"}
TypeDefault == "All"
TopNValues == {n \in SliderMin..MaxTopN : (n - SliderMin) % SliderStep = 0}

\* ------------------------------------------------------------- row universe
\* orgGroupName is a string in the program; names are modelled by their rank
\* in string order so that sort_values can compare them.  The rank order is
\* deliberately different from the orgGroupId order.
OrgName == <<3, 1, 2, 6, 5, 4, 7>>
OrgType == <<"PaAN", "Other", "NULL", "PaAN", "Other", "Other", "PaAN">>

Row(m, o, s, r) ==
    [month |-> m, orgGroupId |-> o, orgGroupName |-> OrgName[o],
     orgType |-> OrgType[o], session_count |-> s, report_count |-> r]

\* Contents the backend table may have when the procedure runs.  Orders has
\* an organization with rows in both months, organizations seen in one month
\* only, and one whose type is null.
Orders == << Row(2, 2, 1, 2), Row(1, 1, 2, 1), Row(2, 3, 3, 4), Row(2, 1, 1, 1) >>

\* two organizations in one month
Scenario == << Row(1, 1, 5, 10), Row(1, 2, 8, 30) >>

\* seven organizations, more groups than the smallest slider value, with equal
\* totals inside and across the top-N cut
Big ==
    << Row(2, 7, 1, 2), Row(1, 6, 2, 2), Row(1, 5, 3, 3), Row(1, 4, 4, 5),
       Row(1, 3, 1, 9), Row(2, 2, 1, 1), Row(1, 2, 5, 2), Row(1, 1, 6, 8) >>

SessionTables == {<<>>, Orders}
DataTables == {Scenario, Big}

\* --------------------------------------------------------- sequence helpers
RECURSIVE SumOf(_, _)
SumOf(s, f) == IF s = <<>> THEN 0 ELSE s[1][f] + SumOf(Tail(s), f)

\* the distinct values of s, in order of first appearance (Series.unique)
RECURSIVE Unique(_)
Unique(s) ==
    IF s = <<>> THEN <<>>
    ELSE LET init == Unique(SubSeq(s, 1, Len(s) - 1))
             x == s[Len(s)]
         IN IF \E i \in 1..Len(init) : init[i] = x THEN init ELSE Append(init, x)

Column(s, f) == [i \in 1..Len(s) |-> s[i][f]]
Range(s) == {s[i] : i \in 1..Len(s)}

\* -------------------------------------------------- fetch_data (lines 40-51)
\* outcomes of line 47: the call raises, or res.data is null, or a row list
Raised == [raised |-> TRUE, some |-> FALSE, val |-> <<>>]
NoData == [raised |-> FALSE, some |-> FALSE, val |-> <<>>]
Data(rows) == [raised |-> FALSE, some |-> TRUE, val |-> rows]

\* line 43: the p_type entry of the payload
PType(t) == IF t = "All" THEN "NULL" ELSE IF t = "PaAN" THEN "PaAN" ELSE "NOT_PaAN"

\* lines 44-45: `months or None`, `orgs or None`
OrNone(x) == IF x.some /\ x.val # {} THEN x ELSE None

Payload(t, months, orgs) ==
    [p_type |-> PType(t), p_months |-> OrNone(months), p_orgs |-> OrNone(orgs)]

\* The remote procedure: the rows of the table that pass the type filter of
\* lines 33-38 (IS DISTINCT FROM keeps the rows whose type is null) and the
\* optional month/org allow-lists, in table order.
RpcRows(payload, tbl) ==
    LET Match(r) ==
            /\ \/ payload.p_type = "NULL"
               \/ payload.p_type = "PaAN" /\ r.orgType = "PaAN"
               \/ payload.p_type = "NOT_PaAN" /\ r.orgType # "PaAN"
            /\ payload.p_months.some => r.month \in payload.p_months.val
            /\ payload.p_orgs.some => r.orgGroupName \in payload.p_orgs.val
    IN SelectSeq(tbl, Match)

\* line 48: pd.DataFrame(res.data or [])
DataFrame(res) == IF res.some THEN res.val ELSE <<>>

\* ordering by month alone
MonthOnlyLessEq(a, b) == a.month <= b.month

\* line 50: the (month, orgGroupName) ordering of sort_values
MonthOrgLessEq(a, b) ==
    \/ a.month < b.month
    \/ a.month = b.month /\ a.orgGroupName <= b.orgGroupName

RECURSIVE InsertRow(_, _)
InsertRow(x, s) ==
    IF s = <<>> THEN <<x>>
    ELSE IF MonthOrgLessEq(s[Len(s)], x) THEN Append(s, x)
    ELSE Append(InsertRow(x, SubSeq(s, 1, Len(s) - 1)), s[Len(s)])

\* line 50: df.sort_values(["month", "orgGroupName"]); a multi-column sort is
\* a lexsort, which keeps rows with equal keys in their input order
RECURSIVE SortValuesMonthOrg(_)
SortValuesMonthOrg(s) ==
    IF s = <<>> THEN <<>>
    ELSE InsertRow(s[Len(s)], SortValuesMonthOrg(SubSeq(s, 1, Len(s) - 1)))

\* lines 48-51: what fetch_data returns for the backend response res
FetchResult(res) ==
    LET d == DataFrame(res)
    IN IF d # <<>> THEN SortValuesMonthOrg(d) ELSE d

\* the call passes the current selections on
FetchArgsSelected(t, months, orgs) == <<t, months, orgs>>

\* line 53: the arguments of the one call of fetch_data; they are the cache key
FetchArgs(t, months, orgs) == <<t, None, None>>

\* an entry that never expires
IsFreshForever(at, t) == t >= at

\* line 40: ttl=300; an entry stored at time `at` is served while younger
IsFresh(at, t) == t - at < TTL

\* ---------------------------------------------- presentation (lines 59-115)
\* line 59: sorted(df["month"].unique().tolist())
RECURSIVE SortedSeq(_)
SortedSeq(S) ==
    IF S = {} THEN <<>>
    ELSE LET m == CHOOSE x \in S : \A y \in S : x <= y
         IN <<m>> \o SortedSeq(S \ {m})

AllMonths(d) == SortedSeq(Range(Column(d, "month")))

\* line 60: df["orgGroupName"].unique().tolist()
AllOrgs(d) == Unique(Column(d, "orgGroupName"))

\* lines 83-87
Filtered(d, months, orgs) ==
    LET InMonths(r) == r.month \in months
        InOrgs(r) == r.orgGroupName \in orgs
        f1 == IF months # {} THEN SelectSeq(d, InMonths) ELSE d
    IN IF orgs # {} THEN SelectSeq(f1, InOrgs) ELSE f1

\* string order of the orgType labels
TypeRank(t) == IF t = "Other" THEN 1 ELSE 2

GroupKey(r) == <<r.orgGroupId, r.orgGroupName, r.orgType>>

KeyLessEq(a, b) ==
    \/ a[1] < b[1]
    \/ a[1] = b[1] /\ a[2] < b[2]
    \/ a[1] = b[1] /\ a[2] = b[2] /\ TypeRank(a[3]) <= TypeRank(b[3])

RECURSIVE SortedKeys(_)
SortedKeys(K) ==
    IF K = {} THEN <<>>
    ELSE LET m == CHOOSE k \in K : \A j \in K : KeyLessEq(k, j)
         IN <<m>> \o SortedKeys(K \ {m})

\* the group keys groupby keeps: dropna is on by default, so a row with a null
\* in a key column belongs to no group
GroupKeys(f) == {GroupKey(r) : r \in {x \in Range(f) : x.orgType # "NULL"}}

\* lines 103-105: groupby(...).agg(sum, sum); groups come out in key order
GroupSums(f) ==
    LET keys == SortedKeys(GroupKeys(f))
    IN [i \in 1..Len(keys) |->
          LET InGroup(r) == GroupKey(r) = keys[i]
              rows == SelectSeq(f, InGroup)
          IN [orgGroupId |-> keys[i][1], orgGroupName |-> keys[i][2],
              orgType |-> keys[i][3],
              total_sessions |-> SumOf(rows, "session_count"),
              total_reports |-> SumOf(rows, "report_count")]]

\* the arrangements of the rows s[i], i \in I, that are descending
RECURSIVE Arrangements(_, _)
Arrangements(s, I) ==
    IF I = {} THEN {<<>>}
    ELSE UNION {{<<s[i]>> \o t : t \in Arrangements(s, I \ {i})} :
                  i \in {i \in I : \A j \in I : s[i].total_reports >= s[j].total_reports}}

\* lines 106, 115: sort_values("total_reports", ascending=False) with the
\* default kind (quicksort), which is not stable: every descending arrangement
\* of the rows is a possible outcome
SortValuesDesc(s) == Arrangements(s, 1..Len(s))

\* one row too many
HeadNOffByOne(s, n) == SubSeq(s, 1, IF n + 1 < Len(s) THEN n + 1 ELSE Len(s))

\* line 113: totals.head(top_n)
HeadN(s, n) == SubSeq(s, 1, IF n < Len(s) THEN n ELSE Len(s))

\* -------------------------------------------------------------------- state
VARIABLES
    type_option,    \* line 26: value of the type selectbox
    top_n,          \* line 22: value of the slider
    month_filter,   \* session state of the multiselect with key "month_filter"
    org_filter,     \* session state of the multiselect with key "org_filter"
    cache,          \* st.cache_data store of fetch_data: key -> [value, at]
    now,            \* the clock, in seconds
    rpcCalls,       \* number of executions of line 47
    rpc_data,       \* outcome of the latest execution of line 47
    lookup,         \* how the cache answered the latest call of fetch_data
    status,         \* how the latest script run ended
    shown,          \* the elements the latest script run put on the page
    df, all_months, all_orgs, filtered, totals, plot_df, org_order

vars == <<type_option, top_n, month_filter, org_filter, cache, now, rpcCalls,
          rpc_data, lookup, status, shown, df, all_months, all_orgs, filtered, totals,
          plot_df, org_order>>

Init ==
    /\ type_option = TypeDefault
    /\ top_n = SliderDefault
    /\ month_filter = {}
    /\ org_filter = {}
    /\ cache = <<>>
    /\ now = 0
    /\ rpcCalls = 0
    /\ rpc_data = NoData
    /\ lookup = [kind |-> "none", age |-> 0]
    /\ status = "init"
    /\ shown = {}
    /\ df = <<>>
    /\ all_months = <<>>
    /\ all_orgs = <<>>
    /\ filtered = <<>>
    /\ totals = <<>>
    /\ plot_df = <<>>
    /\ org_order = <<>>

\* the empty frame is not recognised
DfEmptyNever(d) == FALSE

\* line 55: df.empty
DfEmpty(d) == d = <<>>

\* the exception is swallowed and the call counts as an empty response
PropagatesNever(res) == FALSE

\* line 47 sits in no try block: an exception leaves fetch_data and the script
Propagates(res) == res.raised

\* lines 55-57
EmptyResultPage == {"info_no_results"}
\* lines 62-80, 90-91, 99-100, 151
NoMatchPage == {"month_filter", "org_filter", "warning_no_match", "info_no_totals",
                "expander"}
\* lines 62-80, 93, 111, 149, 151
ResultPage == {"month_filter", "org_filter", "data_table", "totals_table", "chart",
               "expander"}

\* a run that ends before line 59: no multiselect, table or chart exists
Halt(st, sh) ==
    /\ status' = st
    /\ shown' = sh
    /\ month_filter' = {}
    /\ org_filter' = {}
    /\ df' = <<>>
    /\ all_months' = <<>>
    /\ all_orgs' = <<>>
    /\ filtered' = <<>>
    /\ totals' = <<>>
    /\ plot_df' = <<>>
    /\ org_order' = <<>>

\* lines 55-154 for the frame d returned by fetch_data.  mf and orgf are the
\* session-state values of the two multiselects; a multiselect keeps its
\* state only while it is the same widget (same options and default),
\* otherwise it shows its default, which is every option.
Present(d, n, mf, orgf) ==
    IF DfEmpty(d)
    THEN Halt("stopped", EmptyResultPage)
    ELSE
      LET am == AllMonths(d)
          ao == AllOrgs(d)
          selected_months ==
              IF "month_filter" \in shown /\ all_months = am THEN mf ELSE Range(am)
          selected_orgs ==
              IF "org_filter" \in shown /\ all_orgs = ao THEN orgf ELSE Range(ao)
          f == Filtered(d, selected_months, selected_orgs)
      IN /\ status' = "done"
         /\ df' = d
         /\ all_months' = am
         /\ all_orgs' = ao
         /\ month_filter' = selected_months
         /\ org_filter' = selected_orgs
         /\ filtered' = f
         /\ IF f = <<>>
            THEN /\ shown' = NoMatchPage
                 /\ totals' = <<>>
                 /\ plot_df' = <<>>
                 /\ org_order' = <<>>
            ELSE /\ shown' = ResultPage
                 /\ \E tot \in SortValuesDesc(GroupSums(f)) :
                      /\ totals' = tot
                      /\ plot_df' = HeadN(tot, n)
                      /\ \E sorted \in SortValuesDesc(HeadN(tot, n)) :
                           org_order' = Column(sorted, "orgGroupName")

\* what line 47 can do for a payload: raise, return null, or return the
\* matching rows of the table
Responses(tables, payload) ==
    {Raised, NoData} \cup {Data(RpcRows(payload, tbl)) : tbl \in tables}

\* One run of the script (lines 16-154) with the widget values t, n, mf, orgf,
\* against a backend whose table is one of tables.
Script(tables, t, n, mf, orgf) ==
    LET key == FetchArgs(t, Some(mf), Some(orgf))
        known == key \in DOMAIN cache
        age == IF known THEN now - cache[key].at ELSE 0
    IN IF known /\ IsFresh(cache[key].at, now)
       THEN /\ lookup' = [kind |-> "hit", age |-> age]
            /\ Present(cache[key].value, n, mf, orgf)
            /\ UNCHANGED <<cache, rpcCalls, rpc_data>>
       ELSE /\ rpcCalls < MaxCalls
            /\ rpcCalls' = rpcCalls + 1
            /\ lookup' = [kind |-> IF known THEN "expired" ELSE "absent", age |-> age]
            /\ \E res \in Responses(tables, Payload(key[1], key[2], key[3])) :
                 /\ rpc_data' = res
                 /\ IF Propagates(res)
                    THEN /\ Halt("error", {})
                         /\ UNCHANGED cache
                    ELSE /\ cache' = [k \in DOMAIN cache \cup {key} |->
                                        IF k = key
                                        THEN [value |-> FetchResult(res), at |-> now]
                                        ELSE cache[k]]
                         /\ Present(FetchResult(res), n, mf, orgf)

\* ------------------------------------------------------------------ actions
\* the session's first run, or a rerun with no widget changed
Run(tables) ==
    /\ Script(tables, type_option, top_n, month_filter, org_filter)
    /\ UNCHANGED <<type_option, top_n, now>>

SelectType(tables, t) ==
    /\ status # "init"
    /\ t # type_option
    /\ type_option' = t
    /\ Script(tables, t, top_n, month_filter, org_filter)
    /\ UNCHANGED <<top_n, now>>

SetTopN(tables, n) ==
    /\ status # "init"
    /\ n # top_n
    /\ top_n' = n
    /\ Script(tables, type_option, n, month_filter, org_filter)
    /\ UNCHANGED <<type_option, now>>

\* One interaction with a multiselect whose options are opts and whose value
\* is cur: remove one item, add one item, or clear all.
Edits(opts, cur) ==
    {S \in SUBSET opts :
        /\ S # cur
        /\ S = {} \/ Cardinality((S \ cur) \cup (cur \ S)) = 1
        /\ S = {} \/ Cardinality(opts \ S) <= MaxDeselect}

SetMonths(tables, S) ==
    /\ "month_filter" \in shown
    /\ S \in Edits(Range(all_months), month_filter)
    /\ Script(tables, type_option, top_n, S, org_filter)
    /\ UNCHANGED <<type_option, top_n, now>>

SetOrgs(tables, S) ==
    /\ "org_filter" \in shown
    /\ S \in Edits(Range(all_orgs), org_filter)
    /\ Script(tables, type_option, top_n, month_filter, S)
    /\ UNCHANGED <<type_option, top_n, now>>

Tick ==
    /\ now + TimeStep <= MaxTime
    /\ now' = now + TimeStep
    /\ UNCHANGED <<type_option, top_n, month_filter, org_filter, cache,
                   rpcCalls, rpc_data, lookup, status, shown, df, all_months, all_orgs,
                   filtered, totals, plot_df, org_order>>

\* a session: every widget, the clock, a small backend table
Next ==
    \/ Run(SessionTables)
    \/ \E t \in TypeOptions : SelectType(SessionTables, t)
    \/ \E n \in TopNValues : SetTopN(SessionTables, n)
    \/ \E S \in SUBSET Range(all_months) : SetMonths(SessionTables, S)
    \/ \E S \in SUBSET Range(all_orgs) : SetOrgs(SessionTables, S)
    \/ Tick

Spec == Init /\ [][Next]_vars

\* the table pipeline: the default type option, larger backend tables
NextData ==
    \/ Run(DataTables)
    \/ \E n \in TopNValues : SetTopN(DataTables, n)
    \/ \E S \in SUBSET Range(all_months) : SetMonths(DataTables, S)
    \/ \E S \in SUBSET Range(all_orgs) : SetOrgs(DataTables, S)

SpecData == Init /\ [][NextData]_vars

\* ------------------------------------------------------------ properties
\* the cache key of the call fetch_data(type_option, None, None)
CallKey(t) == <<t, None, None>>

Count(s, x) == Cardinality({i \in 1..Len(s) : s[i] = x})

TotalsKey(g) == <<g.orgGroupId, g.orgGroupName, g.orgType>>

Descending(s) ==
    \A i, j \in 1..Len(s) : i < j => s[i].total_reports >= s[j].total_reports

\* C1: the rows the filter returns are fetched rows whose month is among the
\* selected months and whose organization name is among the selected
\* organizations, for every selection, the empty ones included.
C1_RowFilterSubset ==
    status = "done" =>
        \A i \in 1..Len(filtered) :
            /\ filtered[i] \in Range(df)
            /\ filtered[i].month \in month_filter
            /\ filtered[i].orgGroupName \in org_filter

\* C2: when rows were fetched and the user has deselected every month, the
\* filtered result is empty and the page carries the "no rows match filter"
\* warning and no data table, totals table or chart.
C2_DeselectAllMonths ==
    (status = "done" /\ month_filter = {}) =>
        /\ filtered = <<>>
        /\ "warning_no_match" \in shown
        /\ shown \cap {"data_table", "totals_table", "chart", "info_no_results"} = {}

\* C3: a call of fetch_data whose argument tuple was fetched successfully less
\* than 300 s earlier is answered with that earlier result and without a
\* backend call; once 300 s have passed the backend is called again.
C3_Step ==
    LET k == CallKey(type_option')
    IN (now' = now /\ k \in DOMAIN cache) =>
          IF now - cache[k].at < TTL
          THEN /\ rpcCalls' = rpcCalls
               /\ cache' = cache
               /\ IF cache[k].value = <<>> THEN status' = "stopped"
                  ELSE status' = "done" /\ df' = cache[k].value
          ELSE rpcCalls' = rpcCalls + 1

C3_CacheWindow == [][C3_Step]_vars

W3_HitLater == status = "done" /\ lookup.kind = "hit" /\ lookup.age > 0

\* C4: the totals table has exactly one row for each (orgGroupId,
\* orgGroupName, orgType) of the filtered rows, carrying the sums of
\* report_count and session_count over the filtered rows of that group.
C4_TotalsPerGroup ==
    (status = "done" /\ filtered # <<>>) =>
        /\ \A r \in Range(filtered) :
              Cardinality({i \in 1..Len(totals) : TotalsKey(totals[i]) = GroupKey(r)}) = 1
        /\ \A i \in 1..Len(totals) :
              LET Same(r) == GroupKey(r) = TotalsKey(totals[i])
                  rows == SelectSeq(filtered, Same)
              IN /\ rows # <<>>
                 /\ totals[i].total_reports = SumOf(rows, "report_count")
                 /\ totals[i].total_sessions = SumOf(rows, "session_count")

\* C5: plot_df has at most top_n rows and at most as many rows as there are
\* distinct organizations in the filtered rows, and it is a prefix of the
\* totals table, which is descending by total_reports, so no organization left
\* out has more reports than a charted one.
C5_TopNPrefix ==
    status = "done" =>
        /\ Len(plot_df) <= top_n
        /\ Len(plot_df) <= Cardinality({r.orgGroupId : r \in Range(filtered)})
        /\ Len(plot_df) <= Len(totals)
        /\ plot_df = SubSeq(totals, 1, Len(plot_df))
        /\ Descending(totals)
        /\ \A i \in 1..Len(plot_df) : \A j \in (Len(plot_df) + 1)..Len(totals) :
              plot_df[i].total_reports >= totals[j].total_reports

W5_Truncated ==
    /\ status = "done"
    /\ Len(totals) > top_n
    /\ Len(plot_df) = top_n
    /\ totals[top_n].total_reports = totals[top_n + 1].total_reports

\* C6: a fetch with zero rows puts the "no results" message on the page and
\* nothing else; fetched rows that the filter all removes put the "no rows
\* match filter" warning there instead; the two messages never share a page and
\* neither is on a page whose filtered set is non-empty.
C6_EmptyConditions ==
    LET k == CallKey(type_option)
        ran == status \in {"done", "stopped"}
        noResults == "info_no_results" \in shown
        noMatch == "warning_no_match" \in shown
    IN /\ ~(noResults /\ noMatch)
       /\ ~ran => ~noResults /\ ~noMatch
       /\ ran =>
            /\ k \in DOMAIN cache
            /\ cache[k].value = <<>> => status = "stopped" /\ shown = {"info_no_results"}
            /\ (cache[k].value # <<>> /\ filtered = <<>>) =>
                  /\ noMatch
                  /\ shown \cap {"data_table", "totals_table", "chart"} = {}
            /\ filtered # <<>> => ~noResults /\ ~noMatch

W6_NoMatch == status = "done" /\ "warning_no_match" \in shown /\ df # <<>>

\* C7: fetch_data returns the rows of the backend response, each as often as
\* the response has it, ordered by month and then organization name; a null
\* or empty response gives the empty frame.
C7_FetchSorted ==
    (lookup.kind \in {"absent", "expired"} /\ ~rpc_data.raised) =>
        LET k == CallKey(type_option)
            raw == IF rpc_data.some THEN rpc_data.val ELSE <<>>
        IN /\ k \in DOMAIN cache
           /\ Len(cache[k].value) = Len(raw)
           /\ \A r \in Range(raw) : Count(cache[k].value, r) = Count(raw, r)
           /\ \A i, j \in 1..Len(cache[k].value) :
                 i < j =>
                    LET a == cache[k].value[i]
                        b == cache[k].value[j]
                    IN \/ a.month < b.month
                       \/ a.month = b.month /\ a.orgGroupName <= b.orgGroupName

W7_Reordered ==
    /\ lookup.kind = "absent"
    /\ rpc_data.some
    /\ Len(rpc_data.val) > 2
    /\ CallKey(type_option) \in DOMAIN cache
    /\ cache[CallKey(type_option)].value # rpc_data.val

\* C8: when the backend call raises, the run ends as a failure with nothing on
\* the page, the backend was called once in that run, nothing is cached, and
\* the next run with the same type option calls the backend again.
C8_Step ==
    /\ rpcCalls' \in {rpcCalls, rpcCalls + 1}
    /\ (rpcCalls' = rpcCalls + 1 /\ rpc_data'.raised) =>
          /\ status' = "error"
          /\ shown' = {}
          /\ df' = <<>> /\ filtered' = <<>> /\ totals' = <<>> /\ plot_df' = <<>>
          /\ cache' = cache
    /\ (status = "error" /\ type_option' = type_option /\ now' = now) =>
          rpcCalls' = rpcCalls + 1

C8_ErrorState ==
    status = "error" =>
        /\ shown = {}
        /\ rpc_data.raised
        /\ LET k == CallKey(type_option)
           IN k \in DOMAIN cache => now - cache[k].at >= TTL

C8_BackendError == []C8_ErrorState /\ [][C8_Step]_vars

W8_FailedTwice == status = "error" /\ rpcCalls = 2 /\ DOMAIN cache = {}

\* C9: the totals table is descending by total_reports with equal totals in
\* group order, and org_order lists the organizations of plot_df in the order
\* of its rows.
C9_StableOrder ==
    (status = "done" /\ filtered # <<>>) =>
        /\ \A i, j \in 1..Len(totals) :
              i < j =>
                 \/ totals[i].total_reports > totals[j].total_reports
                 \/ /\ totals[i].total_reports = totals[j].total_reports
                    /\ KeyLessEq(TotalsKey(totals[i]), TotalsKey(totals[j]))
        /\ org_order = Column(plot_df, "orgGroupName")

\* C10: every cache key is (type option, None, None), so there are at most
\* three keys; the month and organization options are those of the unfiltered
\* fetch for the type option; and a run that keeps the type option while its
\* cache entry is fresh makes no backend call.
C10_Keys ==
    /\ \A k \in DOMAIN cache : k[1] \in TypeOptions /\ k[2] = None /\ k[3] = None
    /\ Cardinality(DOMAIN cache) <= 3
    /\ status = "done" =>
          LET k == CallKey(type_option)
          IN /\ k \in DOMAIN cache
             /\ df = cache[k].value
             /\ Range(all_months) = {r.month : r \in Range(cache[k].value)}
             /\ Range(all_orgs) = {r.orgGroupName : r \in Range(cache[k].value)}

C10_Step ==
    LET k == CallKey(type_option)
    IN (type_option' = type_option /\ now' = now /\ k \in DOMAIN cache
          /\ now - cache[k].at < TTL)
       => rpcCalls' = rpcCalls /\ cache' = cache

C10_TypeOnlyKey == []C10_Keys /\ [][C10_Step]_vars

W10_SelectionsChanged ==
    /\ status = "done"
    /\ rpcCalls = 1
    /\ month_filter # Range(all_months)
    /\ org_filter # Range(all_orgs)
    /\ top_n # SliderDefault

====
